---------------------------- MODULE Spec2Model ----------------------------
(***************************************************************************)
(* Model of PolRegioGTFS: the schedule scraper (scrape_api.py), the        *)
(* station reconciler (load_station_data.py), the bus-leg splitter         *)
(* (split_bus_legs.py) and the endpoint client (api.py).                   *)
(*                                                                         *)
(* The record store is one set of tables shared by all tasks.  Each task   *)
(* has its own specification: the initial state is the store the task      *)
(* finds (or the response the endpoint returns) and the actions are the    *)
(* task's handlers.                                                        *)
(***************************************************************************)
EXTENDS Integers, Sequences, FiniteSets, TLC

VARIABLES
    \* ---- record store (impuls DBConnection) ----
    routes,            \* sequence of rows [route_id, type], in insertion order
    trips,             \* set of rows [trip_id, route_id, short_name]
    stop_times,        \* set of rows [trip_id, stop_sequence, stop_id,
                       \*              arrival_time, departure_time, platform]
    stops,             \* sequence of rows [stop_id, name, lat, lon]
    transfers,         \* sequence of rows, in insertion order
    calendars,         \* calendars with their calendar_exceptions: set of rows
                       \* [calendar_id, date]
    \* ---- SplitBusLegs ----
    added_routes,      \* self.added_routes
    to_process,        \* trip ids still to be handled by execute's loop
    sbl_pc,            \* "idle" | "processing" | "done"
    sbl_train,         \* the Trip handled by the last process_train
    sbl_input,         \* the stop-time list the last process_train read
    sbl_legs,          \* the legs compute_legs returned for it
    sbl_saved,         \* the store when the transaction began
    sbl_passes,        \* calls of execute so far
    \* ---- ScrapeAPI ----
    added_stations,    \* self._added_stations
    scr_pc,            \* "idle" | "checked" | "scraping" | "done" | "raised"
    scr_carriers,      \* the slugs in the response of endpoint.carriers()
    scr_brand,         \* the brand in the response of carrier_trains_lists, its
                       \* trains with their calendar and the endpoint.train responses
    scr_i,             \* position of _scrape_carrier's loop in brand["trains"]
    scr_saved,         \* the store when execute was called: the transaction
                       \* begins with it
    scr_error,         \* what execute raised
    scr_passes,        \* calls of execute so far
    scr_requests,      \* the endpoint calls made by the current pass, in order
    scr_data,          \* the api.Train that endpoint.train(train_id) returned
    bus_departures,    \* what _bus_departures(data) returned
    bd_picks,          \* per attribute, the start and end pick_attribute_idx gave
    \* ---- LoadStationData ----
    to_update,         \* self.to_update: stop_id -> name of the stubs not yet handled
    lsd_pc,            \* "idle" | "applying" | "done" | "raised"
    lsd_stations,      \* the list PLRailMapLoader.load_from_file returned
    lsd_i,             \* position of execute's loop in that list
    lsd_saved,         \* the store when the transaction began
    lsd_error,         \* what execute raised
    \* ---- PLRailMapLoader ----
    ldr_pc,            \* "idle" | "parsing" | "done"
    ldr_file,          \* the elements of the document xml_sax_parse reads
    ldr_i,             \* position of the parser in the events of the document
    stations,          \* self.stations, by value
    current_station,   \* self.current_station, by value
    ldr_shared,        \* the positions of self.stations that hold the very
                       \* object self.current_station refers to
    \* ---- ScrapeAPI._reverse_date_train_map ----
    cal_pc,            \* "idle" | "done"
    date_train_map,    \* calendar["date_train_map"]: its items, in dict order
    train_date_map,    \* the defaultdict returned: train id -> list of Date
    \* ---- api.Endpoint ----
    ep_pc,             \* "idle" | "attempting" | "returned" | "raised"
    ep_calls,          \* calls begun so far
    ep_request,        \* the request built by call()
    ep_retry,          \* the loop variable `retry`
    ep_attempts,       \* outcome of each attempt of the current call
    ep_result,         \* what call() returned or raised
    ep_clock,          \* time.monotonic(), in milliseconds
    last_call,         \* self.last_call, in milliseconds
    ep_sent            \* <<request, time>> of the requests sent for the current
                       \* call, after that of the last request sent before it

dbVars == <<routes, trips, stop_times, stops, transfers, calendars>>
sblVars == <<added_routes, to_process, sbl_pc, sbl_train, sbl_input, sbl_legs,
             sbl_saved, sbl_passes>>
scrVars == <<added_stations, scr_pc, scr_data, bus_departures, bd_picks,
             scr_carriers, scr_brand, scr_i, scr_saved, scr_error, scr_passes,
             scr_requests>>
lsdVars == <<to_update, lsd_pc, lsd_stations, lsd_i, lsd_saved, lsd_error>>
ldrVars == <<ldr_pc, ldr_file, ldr_i, stations, current_station, ldr_shared>>
calVars == <<cal_pc, date_train_map, train_date_map>>
epVars == <<ep_pc, ep_calls, ep_request, ep_retry, ep_attempts, ep_result,
            ep_clock, last_call, ep_sent>>
vars == <<dbVars, sblVars, scrVars, lsdVars, ldrVars, calVars, epVars>>

\* What each task leaves alone: the other tasks' state.
notSbl == <<scrVars, lsdVars, ldrVars, calVars, epVars>>
notScr == <<sblVars, lsdVars, ldrVars, calVars, epVars>>
notLsd == <<sblVars, scrVars, ldrVars, calVars, epVars>>
notLdr == <<dbVars, sblVars, scrVars, lsdVars, calVars, epVars>>
notCal == <<dbVars, sblVars, scrVars, lsdVars, ldrVars, epVars>>
notEp == <<dbVars, sblVars, scrVars, lsdVars, ldrVars, calVars>>

NoTrain == [trip_id |-> <<>>, route_id |-> <<>>, short_name |-> <<>>]

NoData == [train |-> [id |-> 0, name |-> <<>>, train_attributes |-> <<>>],
           stops |-> <<>>]

\* The tasks before they run.
SblIdle ==
    /\ added_routes = {}
    /\ to_process = <<>>
    /\ sbl_pc = "idle"
    /\ sbl_train = NoTrain
    /\ sbl_input = <<>>
    /\ sbl_legs = <<>>
    /\ sbl_saved = <<>>
    /\ sbl_passes = 0

NoError == [kind |-> "none", errors |-> {}]

NoBrand == [id |-> <<>>, name |-> <<>>, trains |-> <<>>]

\* ScrapeAPI before execute, whatever the endpoint is going to answer.
ScrBefore ==
    /\ added_stations = {}
    /\ scr_pc = "idle"
    /\ bus_departures = {}
    /\ bd_picks = <<>>
    /\ scr_i = 1
    /\ scr_saved = <<>>
    /\ scr_error = NoError
    /\ scr_passes = 0
    /\ scr_requests = <<>>

ScrIdle ==
    /\ ScrBefore
    /\ scr_data = NoData
    /\ scr_carriers = {}
    /\ scr_brand = NoBrand

LsdIdle ==
    /\ to_update = <<>>
    /\ lsd_pc = "idle"
    /\ lsd_stations = <<>>
    /\ lsd_i = 1
    /\ lsd_saved = <<>>
    /\ lsd_error = NoError

\* Station(): the dataclass defaults.
Station(lat, lon) == [id |-> "", name |-> "", lat |-> lat, lon |-> lon, secondary_id |-> ""]

\* PLRailMapLoader.__init__, before any document is parsed.
LdrBefore ==
    /\ ldr_pc = "idle"
    /\ ldr_i = 1
    /\ stations = <<>>
    /\ current_station = Station(0, 0)
    /\ ldr_shared = {}

LdrIdle ==
    /\ LdrBefore
    /\ ldr_file = <<>>

CalIdle ==
    /\ cal_pc = "idle"
    /\ date_train_map = <<>>
    /\ train_date_map = <<>>

NoResult == [kind |-> "none", attempt |-> 0]

EpIdle ==
    /\ ep_pc = "idle"
    /\ ep_calls = 0
    /\ ep_request = ""
    /\ ep_retry = 1
    /\ ep_attempts = <<>>
    /\ ep_result = NoResult
    /\ ep_clock = 0
    /\ last_call = 0
    /\ ep_sent = <<>>

(***************************************************************************)
(* Generic helpers.                                                        *)
(***************************************************************************)
Last(s) == s[Len(s)]

\* Python's `needle in haystack` on strings; strings are sequences of characters.
Contains(haystack, needle) ==
    \E i \in 0..(Len(haystack) - Len(needle)) :
        \A j \in 1..Len(needle) : haystack[i + j] = needle[j]

\* All sequences over S of length 1..n.
SeqsUpTo(S, n) == UNION {[1..k -> S] : k \in 1..n}

ZKA == <<"Z", "K", "A">>

\* `with db.transaction():` left by an exception: the store goes back to what
\* it was when the block was entered.  This variant keeps what was written.
transaction_rollback_KeepWrites(saved, current) == current

transaction_rollback(saved, current) == saved

\* The tables take the values of a saved store.
Restore(saved) ==
    /\ routes' = saved[1]
    /\ trips' = saved[2]
    /\ stop_times' = saved[3]
    /\ stops' = saved[4]
    /\ transfers' = saved[5]
    /\ calendars' = saved[6]

\* The accumulator set left as the pass before filled it.
Cleared_Not(accumulator) == accumulator

\* set.clear() at the start of execute
Cleared(accumulator) == {}

\* How often execute is called on one task object: again after it raised.
MaxPasses == 2

(***************************************************************************)
(* split_bus_legs.py                                                       *)
(***************************************************************************)
IsBus(st) == st.platform = "BUS"

\* The copy made for the end of a leg with the platform of the stop left as
\* it is.
arrival_only_KeepPlatform(st, is_bus) == [st EXCEPT !.departure_time = st.arrival_time]

arrival_only(st, is_bus) ==
    [st EXCEPT !.departure_time = st.arrival_time,
               !.platform = IF is_bus THEN "BUS"
                            ELSE IF st.platform = "BUS" THEN "" ELSE st.platform]

\* The copy made for the start of a leg with the arrival time of the stop
\* left as it is.
departure_only_KeepArrival(st, is_bus) ==
    [st EXCEPT !.platform = IF is_bus THEN "BUS"
                            ELSE IF st.platform = "BUS" THEN "" ELSE st.platform]

departure_only(st, is_bus) ==
    [st EXCEPT !.arrival_time = st.departure_time,
               !.platform = IF is_bus THEN "BUS"
                            ELSE IF st.platform = "BUS" THEN "" ELSE st.platform]

\* A mode change that opens the next leg without closing the current one with
\* the arrival-only copy of the boundary stop.
ComputeLegsStep_NoArrivalCopy(acc, st) ==
    LET current_is_bus == IsBus(st) IN
    IF acc.previous_is_bus # current_is_bus
    THEN [legs |-> IF acc.leg # <<>>
                   THEN Append(acc.legs, [stop_times |-> acc.leg,
                                          is_bus |-> acc.previous_is_bus])
                   ELSE acc.legs,
          leg |-> <<departure_only(st, current_is_bus)>>,
          previous_is_bus |-> current_is_bus]
    ELSE [acc EXCEPT !.leg = Append(@, st)]

\* One iteration of compute_legs' loop over stop_times.
ComputeLegsStep(acc, st) ==
    LET current_is_bus == IsBus(st) IN
    IF acc.previous_is_bus # current_is_bus
    THEN [legs |-> IF acc.leg # <<>>
                   THEN Append(acc.legs,
                               [stop_times |-> Append(acc.leg,
                                                      arrival_only(st, acc.previous_is_bus)),
                                is_bus |-> acc.previous_is_bus])
                   ELSE acc.legs,
          leg |-> <<departure_only(st, current_is_bus)>>,
          previous_is_bus |-> current_is_bus]
    ELSE [acc EXCEPT !.leg = Append(@, st)]

RECURSIVE ComputeLegsLoop(_, _, _)
ComputeLegsLoop(acc, sts, i) ==
    IF i > Len(sts) THEN acc
    ELSE ComputeLegsLoop(ComputeLegsStep(acc, sts[i]), sts, i + 1)

\* compute_legs keeps the open run only when it has more than one stop-time.
\* This variant keeps every non-empty open run.
compute_legs_KeepShortRun(sts) ==
    LET final == ComputeLegsLoop([legs |-> <<>>, leg |-> <<>>,
                                  previous_is_bus |-> IsBus(sts[1])], sts, 1)
    IN  IF Len(final.leg) > 0
        THEN Append(final.legs, [stop_times |-> final.leg,
                                 is_bus |-> final.previous_is_bus])
        ELSE final.legs

compute_legs(sts) ==
    LET final == ComputeLegsLoop([legs |-> <<>>, leg |-> <<>>,
                                  previous_is_bus |-> IsBus(sts[1])], sts, 1)
    IN  IF Len(final.leg) > 1
        THEN Append(final.legs, [stop_times |-> final.leg,
                                 is_bus |-> final.previous_is_bus])
        ELSE final.legs

\* f"{train.id}_{idx}"
LegTripId(train_id, idx) == train_id \o <<"_", ToString(idx)>>

\* The trip's own route taken for the companion route.
BusRouteId_OwnRoute(route_id) == route_id

\* route_id + "BUS"
BusRouteId(route_id) == route_id \o <<"BUS">>

\* get_bus_route: the routes table and added_routes after the call.
RoutesAfterGetBusRoute(route_id) ==
    IF BusRouteId(route_id) \notin added_routes
    THEN Append(routes, [route_id |-> BusRouteId(route_id), type |-> 3])
    ELSE routes

AddedRoutesAfterGetBusRoute(route_id) == added_routes \cup {BusRouteId(route_id)}

\* db.retrieve_must(Trip, trip_id)
retrieve_must(trip_id) == CHOOSE t \in trips : t.trip_id = trip_id

\* SELECT * FROM stop_times WHERE trip_id=?  (rows come back in key order:
\* by stop_sequence)
SelectStopTimes(trip_id) ==
    LET rows == {st \in stop_times : st.trip_id = trip_id}
    IN  [i \in 1..Cardinality(rows) |->
            CHOOSE st \in rows : st.stop_sequence = i - 1]

\* The Transfer created after leg number idx (0-based, idx # 0) was inserted.
\* `leg` is the loop variable: the stop-times of leg idx.
LegTransfer(train, leg, idx) ==
    [from_stop_id |-> Last(leg).stop_id,
     to_stop_id   |-> Last(leg).stop_id,
     from_trip_id |-> LegTripId(train.trip_id, idx - 1),
     to_trip_id   |-> LegTripId(train.trip_id, idx),
     type         |-> "TIMED"]

\* Every leg's trip left on the route of the original trip.
LegTrips_OriginalRoute(train, legs) ==
    {[train EXCEPT !.trip_id = LegTripId(train.trip_id, k - 1)] : k \in 1..Len(legs)}

\* Trips inserted by replace_train_by_legs.
LegTrips(train, legs) ==
    {[train EXCEPT !.trip_id = LegTripId(train.trip_id, k - 1),
                   !.route_id = IF legs[k].is_bus THEN BusRouteId(train.route_id)
                                ELSE train.route_id] : k \in 1..Len(legs)}

\* Stop-times inserted by replace_train_by_legs.
LegStopTimes(train, legs) ==
    UNION {{[legs[k].stop_times[i] EXCEPT !.trip_id = LegTripId(train.trip_id, k - 1)] :
                i \in 1..Len(legs[k].stop_times)} : k \in 1..Len(legs)}

\* Transfers inserted by replace_train_by_legs, in insertion order.
LegTransfers(train, legs) ==
    [k \in 1..(Len(legs) - 1) |-> LegTransfer(train, legs[k + 1].stop_times, k)]

replace_train_by_bus(train) ==
    /\ routes' = RoutesAfterGetBusRoute(train.route_id)
    /\ added_routes' = AddedRoutesAfterGetBusRoute(train.route_id)
    /\ trips' = (trips \ {train})
                    \cup {[train EXCEPT !.route_id = BusRouteId(train.route_id)]}
    /\ UNCHANGED <<stop_times, stops, transfers, calendars>>

\* DELETE FROM trips removes the trip; its stop_times go with it (foreign key).
replace_train_by_legs(train, legs) ==
    /\ routes' = RoutesAfterGetBusRoute(train.route_id)
    /\ added_routes' = AddedRoutesAfterGetBusRoute(train.route_id)
    /\ trips' = (trips \ {train}) \cup LegTrips(train, legs)
    /\ stop_times' = {st \in stop_times : st.trip_id # train.trip_id}
                        \cup LegStopTimes(train, legs)
    /\ transfers' = transfers \o LegTransfers(train, legs)
    /\ UNCHANGED <<stops, calendars>>

\* SplitBusLegs.execute up to the loop: clears added_routes, lists the trips.
SblExecute ==
    /\ sbl_pc \in {"idle", "raised"}
    /\ sbl_passes < MaxPasses
    /\ scr_pc = "idle" /\ lsd_pc = "idle"    \* tasks run one at a time
    /\ sbl_passes' = sbl_passes + 1
    /\ sbl_saved' = dbVars
    /\ added_routes' = Cleared(added_routes)
    /\ to_process' = [i \in 1..Cardinality(trips) |->
                        CHOOSE id \in {t.trip_id : t \in trips} :
                            Cardinality({t \in trips : t.trip_id[1] <= id[1]}) = i]
    /\ sbl_pc' = "processing"
    /\ UNCHANGED <<dbVars, sbl_train, sbl_input, sbl_legs, notSbl>>

\* One iteration of execute's loop: process_train(trip_id, db).
SblProcessTrain ==
    /\ sbl_pc = "processing"
    /\ to_process # <<>>
    /\ LET train == retrieve_must(Head(to_process))
           sts == SelectStopTimes(Head(to_process))
           legs == compute_legs(sts)
       IN  /\ sbl_train' = train
           /\ sbl_input' = sts
           /\ sbl_legs' = legs
           /\ IF Contains(train.short_name, ZKA) \/ (Len(legs) = 1 /\ legs[1].is_bus)
              THEN replace_train_by_bus(train)
              ELSE IF Len(legs) > 1
                   THEN replace_train_by_legs(train, legs)
                   ELSE UNCHANGED <<dbVars, added_routes>>
    /\ to_process' = Tail(to_process)
    /\ UNCHANGED <<sbl_pc, sbl_saved, sbl_passes, notSbl>>

\* A statement of process_train raises (the store reports an error): the
\* exception leaves the transaction block and execute.  get_bus_route adds
\* the route id to added_routes before its INSERT, so the set may have it.
SblFail ==
    /\ sbl_pc = "processing"
    /\ to_process # <<>>
    /\ Restore(transaction_rollback(sbl_saved, dbVars))
    /\ \E after \in {added_routes,
                      AddedRoutesAfterGetBusRoute(retrieve_must(Head(to_process)).route_id)} :
         added_routes' = after
    /\ sbl_pc' = "raised"
    /\ UNCHANGED <<to_process, sbl_train, sbl_input, sbl_legs, sbl_saved, sbl_passes, notSbl>>

\* The loop is over: the transaction commits and execute returns.
SblDone ==
    /\ sbl_pc = "processing"
    /\ to_process = <<>>
    /\ sbl_pc' = "done"
    /\ UNCHANGED <<dbVars, added_routes, to_process, sbl_train, sbl_input, sbl_legs,
                   sbl_saved, sbl_passes, notSbl>>

(***************************************************************************)
(* The store SplitBusLegs finds: one or two trips with their stop-times.   *)
(***************************************************************************)
MaxStops == 5

Platforms == {"1", "BUS"}
TripNames == {<<"7">>, <<"7", " ", "Z", "K", "A">>, <<"7", " ", "Z", "k", "a">>}
RouteIds == {<<"R">>, <<"S">>}
SecondTripPatterns == {<<"1", "1">>, <<"1", "BUS">>, <<"BUS", "BUS">>, <<"BUS", "1", "1">>}

\* Stop-times of trip tid whose platforms are given: stop i calls at station
\* 100+i, arrives at 600*i and leaves a minute later.
TripStopTimes(tid, platforms) ==
    {[trip_id |-> tid, stop_sequence |-> i - 1, stop_id |-> 100 + i,
      arrival_time |-> 600 * i, departure_time |-> 600 * i + 60,
      platform |-> platforms[i]] : i \in 1..Len(platforms)}

LegsInit ==
    /\ SblIdle
    /\ LdrIdle
    /\ ScrIdle
    /\ LsdIdle
    /\ CalIdle
    /\ EpIdle
    /\ stops = <<>>
    /\ transfers = <<>>
    /\ calendars = {}
    /\ \E p1 \in SeqsUpTo(Platforms, MaxStops), n1 \in TripNames :
         LET t1 == [trip_id |-> <<1>>, route_id |-> <<"R">>, short_name |-> n1] IN
         \/ /\ trips = {t1}
            /\ stop_times = TripStopTimes(<<1>>, p1)
            /\ routes = <<[route_id |-> <<"R">>, type |-> 2]>>
         \/ \E p2 \in SecondTripPatterns, r2 \in RouteIds :
              /\ trips = {t1, [trip_id |-> <<2>>, route_id |-> r2, short_name |-> <<"8">>]}
              /\ stop_times = TripStopTimes(<<1>>, p1) \cup TripStopTimes(<<2>>, p2)
              /\ routes = <<[route_id |-> <<"R">>, type |-> 2],
                            [route_id |-> <<"S">>, type |-> 2]>>

LegsNext == SblExecute \/ SblProcessTrain \/ SblDone

SpecLegs == LegsInit /\ [][LegsNext]_vars

(***************************************************************************)
(* The store SplitBusLegs finds: one trip whose stop-times differ in their  *)
(* running and dwell times, as _scrape_train_stops writes them (no time     *)
(* earlier than the one before it).                                        *)
(***************************************************************************)
MaxChronoStops == 4

RunTimes == {0, 600}
DwellTimes == {0, 60}

\* The departure from stop i when stop j is reached runs[j] after leaving the
\* stop before it and left dwells[j] later.
RECURSIVE DepartureAt(_, _, _)
DepartureAt(runs, dwells, i) ==
    IF i = 0 THEN 0 ELSE DepartureAt(runs, dwells, i - 1) + runs[i] + dwells[i]

TimedStopTimes(tid, platforms, runs, dwells) ==
    {[trip_id |-> tid, stop_sequence |-> i - 1, stop_id |-> 100 + i,
      arrival_time |-> DepartureAt(runs, dwells, i) - dwells[i],
      departure_time |-> DepartureAt(runs, dwells, i),
      platform |-> platforms[i]] : i \in 1..Len(platforms)}

ChronoInit ==
    /\ SblIdle
    /\ LdrIdle
    /\ ScrIdle
    /\ LsdIdle
    /\ CalIdle
    /\ EpIdle
    /\ stops = <<>>
    /\ transfers = <<>>
    /\ calendars = {}
    /\ trips = {[trip_id |-> <<1>>, route_id |-> <<"R">>, short_name |-> <<"7">>]}
    /\ routes = <<[route_id |-> <<"R">>, type |-> 2]>>
    /\ \E n \in 1..MaxChronoStops :
         \E platforms \in [1..n -> Platforms], runs \in [1..n -> RunTimes],
            dwells \in [1..n -> DwellTimes] :
              stop_times = TimedStopTimes(<<1>>, platforms, runs, dwells)

SpecChrono == ChronoInit /\ [][LegsNext]_vars


(***************************************************************************)
(* scrape_api.py: _scrape_train_stops and _bus_departures                  *)
(***************************************************************************)
BUS_ATTRIBUTE_IDS == {2, 56, 100}

\* TimePoint(days=1), in seconds
Day == 86400

\* _station_name_to_idx(stops)[name]: the 0-based positions of the stops with
\* that station name, ascending (empty when there is none).
Candidates(stop_list, name) ==
    SelectSeq([i \in 1..Len(stop_list) |-> i - 1],
              LAMBDA pos : stop_list[pos + 1].station_name = name)

\* pick_attribute_idx: {} stands for None, {i} for position i.
pick_attribute_idx(name, stop_list, is_start) ==
    LET candidates == Candidates(stop_list, name) IN
    IF candidates = <<>> THEN {}
    ELSE IF Len(candidates) > 1
         THEN {IF is_start THEN candidates[1] ELSE Last(candidates)}
         ELSE {candidates[1]}

\* The two lookups _bus_departures makes for one attribute.
AttributeStart(attribute, stop_list) ==
    pick_attribute_idx(attribute.begin_station_name, stop_list, TRUE)

AttributeEnd(attribute, stop_list) ==
    pick_attribute_idx(attribute.begin_station_name, stop_list, TRUE)

\* range(start, end + end_is_last) after `if end_is_last: end += 1`
AttributeRange(start, end, n) ==
    LET end_is_last == (end = n - 1)
        end2 == IF end_is_last THEN end + 1 ELSE end
    IN  start..(end2 + (IF end_is_last THEN 1 ELSE 0) - 1)

\* What `start` and `end` were for each attribute (<<{}, {}>> for an attribute
\* whose id is not recognized: no lookup is made).
BusPicks(data) ==
    [a \in 1..Len(data.train.train_attributes) |->
        LET attribute == data.train.train_attributes[a] IN
        IF attribute.id \in BUS_ATTRIBUTE_IDS
        THEN <<AttributeStart(attribute, data.stops), AttributeEnd(attribute, data.stops)>>
        ELSE <<{}, {}>>]

_bus_departures(data) ==
    IF Contains(data.train.name, ZKA)
    THEN 0..(Len(data.stops) - 1)
    ELSE UNION {LET picks == BusPicks(data)[a] IN
                IF picks[1] # {} /\ picks[2] # {}
                THEN UNION {AttributeRange(start, end, Len(data.stops)) :
                                <<start, end>> \in picks[1] \X picks[2]}
                ELSE {} : a \in 1..Len(data.train.train_attributes)}

\* The loop written with `<=`: a day is added to a time equal to the floor.
RECURSIVE AddDaysUntil_OrEqual(_, _)
AddDaysUntil_OrEqual(x, floor) ==
    IF x <= floor THEN AddDaysUntil_OrEqual(x + Day, floor) ELSE x

\* `while x < floor: x += TimePoint(days=1)`
RECURSIVE AddDaysUntil(_, _)
AddDaysUntil(x, floor) == IF x < floor THEN AddDaysUntil(x + Day, floor) ELSE x

\* The departure fix-up left out: departure is written as received.
NormalizedDeparture_Raw(departure, arrival) == departure

NormalizedArrival(arrival, previous_departure) == AddDaysUntil(arrival, previous_departure)

NormalizedDeparture(departure, arrival) == AddDaysUntil(departure, arrival)

\* The loop of _scrape_train_stops: rows written for stops i.., given the
\* departure of the stop before.
RECURSIVE ScrapeStopsLoop(_, _, _, _)
ScrapeStopsLoop(data, bus, i, previous_departure) ==
    IF i > Len(data.stops) THEN {}
    ELSE LET stop == data.stops[i]
             arrival == NormalizedArrival(stop.arrival, previous_departure)
             departure == NormalizedDeparture(stop.departure, arrival)
         IN  {[trip_id |-> <<data.train.id>>, stop_sequence |-> i - 1,
               stop_id |-> stop.station_id,
               arrival_time |-> arrival, departure_time |-> departure,
               platform |-> IF (i - 1) \in bus THEN "BUS" ELSE stop.platform]}
             \cup ScrapeStopsLoop(data, bus, i + 1, departure)

\* _ensure_stop_exists over the stops of the train, in order.
RECURSIVE EnsureStopsLoop(_, _, _, _)
EnsureStopsLoop(data, i, added, rows) ==
    IF i > Len(data.stops) THEN [added |-> added, rows |-> rows]
    ELSE LET stop == data.stops[i] IN
         IF stop.station_id \notin added
         THEN EnsureStopsLoop(data, i + 1, added \cup {stop.station_id},
                              Append(rows, [stop_id |-> stop.station_id,
                                            name |-> stop.station_name,
                                            lat |-> 0, lon |-> 0]))
         ELSE EnsureStopsLoop(data, i + 1, added, rows)

\* _scrape_train_stops(train_id, db); scr_data is what endpoint.train returned.
ScrapeTrainStops ==
    /\ scr_pc = "idle"
    /\ scr_requests' = Append(scr_requests, "trains")
    /\ LET bus == _bus_departures(scr_data)
           ensured == EnsureStopsLoop(scr_data, 1, added_stations, stops)
       IN  /\ bus_departures' = bus
           /\ bd_picks' = BusPicks(scr_data)
           /\ added_stations' = ensured.added
           /\ stops' = ensured.rows
           /\ stop_times' = stop_times \cup ScrapeStopsLoop(scr_data, bus, 1, 0)
    /\ scr_pc' = "done"
    /\ UNCHANGED <<routes, trips, transfers, calendars, scr_data, scr_carriers, scr_brand,
                   scr_i, scr_saved, scr_error, scr_passes, notScr>>

(***************************************************************************)
(* The responses of endpoint.train.                                        *)
(***************************************************************************)
MaxTimedStops == 2
MaxNamedStops == 3
MaxAttributes == 1

RawTimes == {0, 300, 600, 85800, 86100}
StationNames == {"A", "B", "C"}
AttributeNames == {"A", "B", "X"}
AttributeIds == {2, 7}
TrainNames == {<<>>, <<"Z", "K", "A">>, <<"Z", "k", "a">>}

StationId(name) == CASE name = "A" -> 1 [] name = "B" -> 2 [] OTHER -> 3

EmptyStore ==
    /\ routes = <<>>
    /\ trips = {}
    /\ stop_times = {}
    /\ stops = <<>>
    /\ transfers = <<>>
    /\ calendars = {}

\* Trains that differ in their raw clock times.
TimesInit ==
    /\ SblIdle
    /\ LdrIdle
    /\ LsdIdle
    /\ CalIdle
    /\ EpIdle
    /\ EmptyStore
    /\ ScrBefore
    /\ scr_carriers = {}
    /\ scr_brand = NoBrand
    /\ \E times \in SeqsUpTo(RawTimes \X RawTimes, MaxTimedStops) :
         scr_data = [train |-> [id |-> 1, name |-> <<>>, train_attributes |-> <<>>],
                     stops |-> [i \in 1..Len(times) |->
                                  [station_id |-> i, station_name |-> ToString(i),
                                   arrival |-> times[i][1], departure |-> times[i][2],
                                   platform |-> "1"]]]

\* Trains that differ in their name, station names and attributes.
Attributes ==
    [id : AttributeIds, begin_station_name : AttributeNames,
     end_station_name : AttributeNames]

BusInit ==
    /\ SblIdle
    /\ LdrIdle
    /\ LsdIdle
    /\ CalIdle
    /\ EpIdle
    /\ EmptyStore
    /\ ScrBefore
    /\ scr_carriers = {}
    /\ scr_brand = NoBrand
    /\ \E names \in SeqsUpTo(StationNames, MaxNamedStops),
          attrs \in {<<>>} \cup SeqsUpTo(Attributes, MaxAttributes),
          train_name \in TrainNames :
         scr_data = [train |-> [id |-> 1, name |-> train_name, train_attributes |-> attrs],
                     stops |-> [i \in 1..Len(names) |->
                                  [station_id |-> StationId(names[i]),
                                   station_name |-> names[i],
                                   arrival |-> 600 * i, departure |-> 600 * i + 60,
                                   platform |-> "1"]]]

ScrNext == ScrapeTrainStops

SpecTimes == TimesInit /\ [][ScrNext]_vars

SpecBus == BusInit /\ [][ScrNext]_vars

\* _scrape_train_stops runs once it is called: nothing else is scheduled.
SpecTimesFair == SpecTimes /\ WF_vars(ScrNext)

(***************************************************************************)
(* load_station_data.py: LoadStationData                                   *)
(***************************************************************************)
\* Station.__bool__
StationIsValid(station) ==
    station.id # "" /\ station.name # "" /\ station.lat # 0 /\ station.lon # 0

HasStop(rows, id) == \E k \in 1..Len(rows) : rows[k].stop_id = id

\* UPDATE stops SET stop_id = new WHERE stop_id = old.  stop_id is the key of
\* stops: the store rejects the statement when it would leave two rows with
\* the same stop_id.
RenameRejected(rows, old, new) == old # new /\ HasStop(rows, old) /\ HasStop(rows, new)

RenameStop(rows, old, new) ==
    [k \in 1..Len(rows) |->
        IF rows[k].stop_id = old THEN [rows[k] EXCEPT !.stop_id = new] ELSE rows[k]]

\* UPDATE stop_times SET stop_id = new WHERE stop_id = old; also what the store
\* does to the stop_times of a renamed stop (the foreign key follows the key).
RepointStopTimes(rows, old, new) ==
    {IF st.stop_id = old THEN [st EXCEPT !.stop_id = new] ELSE st : st \in rows}

\* DELETE FROM stops WHERE stop_id = id
DeleteStop(rows, id) == SelectSeq(rows, LAMBDA row : row.stop_id # id)

\* UPDATE stops SET name = ?, lat = ?, lon = ? WHERE stop_id = station.id
CurateStop(rows, station) ==
    [k \in 1..Len(rows) |->
        IF rows[k].stop_id = station.id
        THEN [rows[k] EXCEPT !.name = station.name, !.lat = station.lat,
                             !.lon = station.lon]
        ELSE rows[k]]

\* The entry read but left in the dict.
Pop_Keep(dict, key) == dict

\* dict.pop(key, None)
Pop(dict, key) == [k \in DOMAIN dict \ {key} |-> dict[k]]

\* Which branch of "Ensure the primary ID is used" _apply takes once the alias
\* was popped from to_update.
AliasBranch(station, after_pop) ==
    IF station.id \in DOMAIN after_pop THEN "merge" ELSE "rename"

\* LoadStationData.execute up to the loop: reads the stubs, loads the
\* registry, opens the transaction.
LsdExecute ==
    /\ lsd_pc = "idle"
    /\ sbl_pc = "idle" /\ scr_pc = "idle"
    /\ to_update' = [id \in {stops[k].stop_id : k \in 1..Len(stops)} |->
                        (CHOOSE row \in {stops[k] : k \in 1..Len(stops)} :
                            row.stop_id = id).name]
    /\ lsd_saved' = dbVars
    /\ lsd_pc' = "applying"
    /\ lsd_i' = 1
    /\ UNCHANGED <<dbVars, lsd_stations, lsd_error, notLsd>>

\* One iteration of execute's loop: _apply(station, db).  When the store
\* rejects a statement the exception leaves the transaction, which rolls back.
LsdApply ==
    /\ lsd_pc = "applying"
    /\ lsd_i <= Len(lsd_stations)
    /\ LET station == lsd_stations[lsd_i]
           id == station.id
           alias == station.secondary_id
       IN  IF id \notin DOMAIN to_update /\ alias \notin DOMAIN to_update
           THEN \* unused station
                /\ lsd_i' = lsd_i + 1
                /\ UNCHANGED <<dbVars, to_update, lsd_pc, lsd_error>>
           ELSE IF alias \in DOMAIN to_update
           THEN LET after_pop == Pop(to_update, alias) IN
                IF AliasBranch(station, after_pop) = "merge"
                THEN /\ stop_times' = RepointStopTimes(stop_times, alias, id)
                     /\ stops' = CurateStop(DeleteStop(stops, alias), station)
                     /\ to_update' = Pop(after_pop, id)
                     /\ lsd_i' = lsd_i + 1
                     /\ UNCHANGED <<routes, trips, transfers, calendars, lsd_pc, lsd_error>>
                ELSE IF RenameRejected(stops, alias, id)
                THEN /\ Restore(transaction_rollback(lsd_saved, dbVars))
                     /\ to_update' = after_pop
                     /\ lsd_pc' = "raised"
                     /\ lsd_error' = [kind |-> "IntegrityError", errors |-> {}]
                     /\ UNCHANGED lsd_i
                ELSE /\ stop_times' = RepointStopTimes(stop_times, alias, id)
                     /\ stops' = CurateStop(RenameStop(stops, alias, id), station)
                     /\ to_update' = Pop(after_pop, id)
                     /\ lsd_i' = lsd_i + 1
                     /\ UNCHANGED <<routes, trips, transfers, calendars, lsd_pc, lsd_error>>
           ELSE /\ stops' = CurateStop(stops, station)
                /\ to_update' = Pop(to_update, id)
                /\ lsd_i' = lsd_i + 1
                /\ UNCHANGED <<routes, trips, stop_times, transfers, calendars, lsd_pc, lsd_error>>
    /\ UNCHANGED <<lsd_stations, lsd_saved, notLsd>>

\* The loop is over: the transaction commits, then _ensure_everything_curated
\* raises one MultipleDataErrors with a DataError per entry left in to_update.
LsdFinish ==
    /\ lsd_pc = "applying"
    /\ lsd_i > Len(lsd_stations)
    /\ IF DOMAIN to_update # {}
       THEN /\ lsd_pc' = "raised"
            /\ lsd_error' = [kind |-> "MultipleDataErrors",
                             errors |-> {<<id, to_update[id]>> : id \in DOMAIN to_update}]
       ELSE /\ lsd_pc' = "done"
            /\ UNCHANGED lsd_error
    /\ UNCHANGED <<dbVars, to_update, lsd_stations, lsd_i, lsd_saved, notLsd>>

(***************************************************************************)
(* The store LoadStationData finds (stubs written by the scraper, each      *)
(* with a stop-time calling at it) and the registry it loads.              *)
(***************************************************************************)
MaxEntries == 3

StubIds == {"100", "200"}
EntryData == {[name |-> "Centrum", lat |-> 50, lon |-> 20],
              [name |-> "Glowny", lat |-> 52, lon |-> 21]}

RegistryEntries ==
    {[id |-> id, secondary_id |-> alias, name |-> d.name, lat |-> d.lat, lon |-> d.lon] :
        id \in StubIds, alias \in StubIds \cup {""}, d \in EntryData}

StubOrder == <<"100", "200">>

\* The ids of S in the order the scraper met them.
IdSeq(S) == SelectSeq(StubOrder, LAMBDA x : x \in S)

StationsInit ==
    /\ SblIdle
    /\ LdrIdle
    /\ ScrIdle
    /\ CalIdle
    /\ EpIdle
    /\ routes = <<>>
    /\ trips = {}
    /\ transfers = <<>>
    /\ calendars = {}
    /\ to_update = <<>>
    /\ lsd_pc = "idle"
    /\ lsd_i = 1
    /\ lsd_saved = <<>>
    /\ lsd_error = NoError
    /\ \E stubs \in SUBSET StubIds \ {{}} :
         /\ stops = [k \in 1..Cardinality(stubs) |->
                        [stop_id |-> IdSeq(stubs)[k], name |-> "stub", lat |-> 0, lon |-> 0]]
         /\ stop_times = {[trip_id |-> <<1>>, stop_sequence |-> k - 1,
                           stop_id |-> IdSeq(stubs)[k],
                           arrival_time |-> 600 * k, departure_time |-> 600 * k + 60,
                           platform |-> "1"] : k \in 1..Cardinality(stubs)}
    /\ lsd_stations \in {<<>>} \cup SeqsUpTo(RegistryEntries, MaxEntries)

StationsNext == LsdExecute \/ LsdApply \/ LsdFinish

SpecStations == StationsInit /\ [][StationsNext]_vars

(***************************************************************************)
(* scrape_api.py: _reverse_date_train_map                                  *)
(***************************************************************************)
DigitChars == <<"0", "1", "2", "3", "4", "5", "6", "7", "8", "9">>

DigitValue(c) == (CHOOSE k \in 1..10 : DigitChars[k] = c) - 1

\* int() of a string of decimal digits
RECURSIVE ParseInt(_)
ParseInt(chars) ==
    IF chars = <<>> THEN 0
    ELSE 10 * ParseInt(SubSeq(chars, 1, Len(chars) - 1)) + DigitValue(Last(chars))

\* Date.from_ymd_str("YYYY-MM-DD")
from_ymd_str(x) ==
    [year |-> ParseInt(SubSeq(x, 1, 4)),
     month |-> ParseInt(SubSeq(x, 6, 7)),
     day |-> ParseInt(SubSeq(x, 9, 10))]

\* The loop body with the date list of a train id replaced, not extended.
ReverseStep_Overwrite(map, item) ==
    (item[2] :> <<from_ymd_str(item[1])>>) @@ map

\* train_date_map[train_id].append(Date.from_ymd_str(date_str)) on a
\* defaultdict(list)
ReverseStep(map, item) ==
    IF item[2] \in DOMAIN map
    THEN [map EXCEPT ![item[2]] = Append(@, from_ymd_str(item[1]))]
    ELSE (item[2] :> <<from_ymd_str(item[1])>>) @@ map

RECURSIVE ReverseLoop(_, _, _)
ReverseLoop(map, items, i) ==
    IF i > Len(items) THEN map
    ELSE ReverseLoop(ReverseStep(map, items[i]), items, i + 1)

_reverse_date_train_map(items) == ReverseLoop(<<>>, items, 1)

ReverseDateTrainMap ==
    /\ cal_pc = "idle"
    /\ train_date_map' = _reverse_date_train_map(date_train_map)
    /\ cal_pc' = "done"
    /\ UNCHANGED <<date_train_map, notCal>>

(***************************************************************************)
(* The date -> train id mappings of a calendar: dates of March 2024.       *)
(***************************************************************************)
MaxDates == 3

CalendarTrainIds == {11, 12}

\* The API's date string of a day of March 2024.
DateString(day) ==
    <<"2", "0", "2", "4", "-", "0", "3", "-">>
        \o <<DigitChars[(day \div 10) + 1], DigitChars[(day % 10) + 1]>>

\* Lists of distinct days: a dict has each key once.
DayLists ==
    {<<>>} \cup {days \in SeqsUpTo(1..MaxDates, MaxDates) :
                    \A i, j \in 1..Len(days) : i # j => days[i] # days[j]}

CalendarInit ==
    /\ SblIdle
    /\ LdrIdle
    /\ ScrIdle
    /\ LsdIdle
    /\ EpIdle
    /\ EmptyStore
    /\ cal_pc = "idle"
    /\ train_date_map = <<>>
    /\ \E days \in DayLists :
         \E ids \in [1..Len(days) -> CalendarTrainIds] :
            date_train_map = [i \in 1..Len(days) |-> <<DateString(days[i]), ids[i]>>]

CalendarNext == ReverseDateTrainMap

SpecCalendar == CalendarInit /\ [][CalendarNext]_vars

(***************************************************************************)
(* load_station_data.py: PLRailMapLoader, the SAX handler of the registry   *)
(***************************************************************************)
\* float() of a decimal string, in tenths (the inputs have at most one digit
\* after the point).
Float(chars) ==
    LET points == {i \in 1..Len(chars) : chars[i] = "."} IN
    IF points = {} THEN 10 * ParseInt(chars)
    ELSE LET p == CHOOSE i \in points : TRUE IN
         10 * ParseInt(SubSeq(chars, 1, p - 1)) + ParseInt(SubSeq(chars, p + 1, Len(chars)))

\* The events xml_sax_parse delivers for the tags of an element: a start and
\* an end for each, in document order.
RECURSIVE TagEvents(_)
TagEvents(tags) ==
    IF tags = <<>> THEN <<>>
    ELSE <<[kind |-> "start", name |-> "tag", attrs |-> Head(tags)],
           [kind |-> "end", name |-> "tag", attrs |-> <<>>]>> \o TagEvents(Tail(tags))

ElementEvents(element) ==
    <<[kind |-> "start", name |-> element.name, attrs |-> element.attrs]>>
    \o TagEvents(element.tags)
    \o <<[kind |-> "end", name |-> element.name, attrs |-> <<>>]>>

\* The events of a whole document.
RECURSIVE Events(_)
Events(file) ==
    IF file = <<>> THEN <<>> ELSE ElementEvents(Head(file)) \o Events(Tail(file))

\* The assignment startElement makes for a tag element.
WithTag(station, attrs) ==
    CASE attrs.k = "ref" -> [station EXCEPT !.id = attrs.v]
      [] attrs.k = "ref:2" -> [station EXCEPT !.secondary_id = attrs.v]
      [] attrs.k = "name" -> [station EXCEPT !.name = attrs.v]
      [] OTHER -> station

\* load_from_file: handler = cls(), then the parse begins.
LdrLoadFromFile ==
    /\ ldr_pc = "idle"
    /\ ldr_pc' = "parsing"
    /\ stations' = <<>>
    /\ current_station' = Station(0, 0)
    /\ ldr_shared' = {}
    /\ ldr_i' = 1
    /\ UNCHANGED <<ldr_file, notLdr>>

\* startElement(name, attrs).  A node makes a new Station object; a tag
\* assigns to a field of the object current_station refers to, which
\* self.stations holds too once endElement has appended it.
LdrStartElement ==
    /\ ldr_pc = "parsing"
    /\ ldr_i <= Len(Events(ldr_file))
    /\ LET event == Events(ldr_file)[ldr_i] IN
       /\ event.kind = "start"
       /\ IF event.name = "node"
          THEN /\ current_station' = Station(Float(event.attrs.lat), Float(event.attrs.lon))
               /\ ldr_shared' = {}
               /\ UNCHANGED stations
          ELSE IF event.name = "tag"
          THEN /\ current_station' = WithTag(current_station, event.attrs)
               /\ stations' = [k \in 1..Len(stations) |->
                                 IF k \in ldr_shared
                                 THEN WithTag(stations[k], event.attrs)
                                 ELSE stations[k]]
               /\ UNCHANGED ldr_shared
          ELSE UNCHANGED <<stations, current_station, ldr_shared>>
    /\ ldr_i' = ldr_i + 1
    /\ UNCHANGED <<ldr_pc, ldr_file, notLdr>>

\* endElement(name): self.stations.append(self.current_station), the object
\* itself, not a copy.
LdrEndElement ==
    /\ ldr_pc = "parsing"
    /\ ldr_i <= Len(Events(ldr_file))
    /\ LET event == Events(ldr_file)[ldr_i] IN
       /\ event.kind = "end"
       /\ IF event.name = "node" /\ StationIsValid(current_station)
          THEN /\ stations' = Append(stations, current_station)
               /\ ldr_shared' = ldr_shared \cup {Len(stations) + 1}
          ELSE UNCHANGED <<stations, ldr_shared>>
    /\ ldr_i' = ldr_i + 1
    /\ UNCHANGED <<ldr_pc, ldr_file, current_station, notLdr>>

\* The document is over: load_from_file returns handler.stations.
LdrReturn ==
    /\ ldr_pc = "parsing"
    /\ ldr_i > Len(Events(ldr_file))
    /\ ldr_pc' = "done"
    /\ UNCHANGED <<ldr_file, ldr_i, stations, current_station, ldr_shared, notLdr>>

(***************************************************************************)
(* The documents the loader reads: point nodes and other elements (ways),   *)
(* each with tag children.                                                 *)
(***************************************************************************)
MaxElements == 2

Tag(k, v) == [k |-> k, v |-> v]

Coordinates == {[lat |-> <<"5", "0", ".", "5">>, lon |-> <<"2", "0">>],
                [lat |-> <<"0", ".", "0">>, lon |-> <<"2", "0">>],
                [lat |-> <<"5", "0", ".", "5">>, lon |-> <<"0">>]}

NodeTags == {<<Tag("ref", "100"), Tag("ref:2", "200"), Tag("name", "Centrum")>>,
             <<Tag("railway", "station"), Tag("ref", "300"), Tag("name", "Glowny")>>,
             <<Tag("ref", ""), Tag("name", "Centrum")>>,
             <<Tag("ref", "400")>>}

WayTags == {<<Tag("railway", "rail")>>,
            <<Tag("name", "Linia 1"), Tag("ref", "1"), Tag("ref:2", "")>>}

Elements ==
    {[name |-> "node", attrs |-> c, tags |-> t] : c \in Coordinates, t \in NodeTags}
    \cup {[name |-> "way", attrs |-> <<>>, tags |-> t] : t \in WayTags}

LoaderInit ==
    /\ SblIdle
    /\ ScrIdle
    /\ LsdIdle
    /\ CalIdle
    /\ EpIdle
    /\ EmptyStore
    /\ LdrBefore
    /\ ldr_file \in {<<>>} \cup SeqsUpTo(Elements, MaxElements)

LoaderNext == LdrLoadFromFile \/ LdrStartElement \/ LdrEndElement \/ LdrReturn

SpecLoader == LoaderInit /\ [][LoaderNext]_vars

(***************************************************************************)
(* scrape_api.py: ScrapeAPI.execute, one pass over the carrier's brand      *)
(***************************************************************************)
\* The slug of another carrier looked for.
CARRIER_Other == "koleje-dolnoslaskie"

CARRIER == "polregio-przewozy-regionalne"

IsLetter(c) == c \in {"a", "k", "z", "A", "K", "Z"}

UpperOf(c) == CASE c = "a" -> "A" [] c = "k" -> "K" [] c = "z" -> "Z" [] OTHER -> c

LowerOf(c) == CASE c = "A" -> "a" [] c = "K" -> "k" [] c = "Z" -> "z" [] OTHER -> c

\* str.title(): a letter that starts a word in upper case, the others in lower
Title(chars) ==
    [i \in 1..Len(chars) |->
        IF i = 1 \/ ~IsLetter(chars[i - 1]) THEN UpperOf(chars[i]) ELSE LowerOf(chars[i])]

trip_short_name(carrier_train) ==
    IF carrier_train.name # <<>>
    THEN <<ToString(carrier_train.nr), " ">> \o Title(carrier_train.name)
    ELSE <<ToString(carrier_train.nr)>>

\* The keys of train_date_map, in the order the dict got them.
TrainIdOrder(items) ==
    LET first == SelectSeq([i \in 1..Len(items) |-> i],
                           LAMBDA i : \A j \in 1..(i - 1) : items[j][2] # items[i][2])
    IN  [k \in 1..Len(first) |-> items[first[k]][2]]

\* What the loop of _scrape_carrier_train over train_date_map.items() has
\* written after the train ids ids[i..], starting from acc.
RECURSIVE ScrapeTrainsLoop(_, _, _, _)
ScrapeTrainsLoop(carrier_train, ids, i, acc) ==
    IF i > Len(ids) THEN acc
    ELSE LET train_id == ids[i]
             dates == _reverse_date_train_map(carrier_train.date_train_map)[train_id]
             data == carrier_train.responses[train_id]
             bus == _bus_departures(data)
             ensured == EnsureStopsLoop(data, 1, acc.added_stations, acc.stops)
         IN  ScrapeTrainsLoop(carrier_train, ids, i + 1,
                [calendars |-> acc.calendars \cup
                                {[calendar_id |-> train_id, date |-> dates[d]] :
                                    d \in 1..Len(dates)},
                 trips |-> acc.trips \cup
                                {[trip_id |-> <<train_id>>, route_id |-> scr_brand.id,
                                  short_name |-> trip_short_name(carrier_train)]},
                 stops |-> ensured.rows,
                 added_stations |-> ensured.added,
                 stop_times |-> acc.stop_times \cup ScrapeStopsLoop(data, bus, 1, 0),
                 requests |-> Append(acc.requests, "trains"),
                 data |-> data])

\* _scrape_carrier_train up to and including the first n train ids.
ScrapedCarrierTrain(carrier_train, n) ==
    ScrapeTrainsLoop(carrier_train,
                     SubSeq(TrainIdOrder(carrier_train.date_train_map), 1, n), 1,
                     [calendars |-> calendars, trips |-> trips, stops |-> stops,
                      added_stations |-> added_stations, stop_times |-> stop_times,
                      requests |-> Append(scr_requests, "train_calendars"),
                      data |-> scr_data])

\* execute up to the transaction: clear(), then _check_carriers().
ScrExecute ==
    /\ scr_pc \in {"idle", "raised"}
    /\ scr_passes < MaxPasses
    /\ sbl_pc = "idle" /\ lsd_pc = "idle"    \* tasks run one at a time
    /\ scr_passes' = scr_passes + 1
    /\ added_stations' = Cleared(added_stations)
    /\ scr_requests' = <<"carriers">>
    /\ scr_i' = 1
    /\ scr_saved' = dbVars
    /\ IF CARRIER \notin scr_carriers
       THEN /\ scr_pc' = "raised"
            /\ scr_error' = [kind |-> "DataError", errors |-> scr_carriers]
       ELSE /\ scr_pc' = "checked"
            /\ scr_error' = NoError
    /\ UNCHANGED <<dbVars, scr_data, bus_departures, bd_picks, scr_carriers, scr_brand, notScr>>

\* _scrape_carrier: the brand is fetched and its route inserted.
ScrBrand ==
    /\ scr_pc = "checked"
    /\ scr_requests' = Append(scr_requests, "carrier_trains_lists")
    /\ routes' = Append(routes, [route_id |-> scr_brand.id, type |-> 2])
    /\ scr_pc' = "scraping"
    /\ UNCHANGED <<trips, stop_times, stops, transfers, calendars, added_stations, scr_data,
                   bus_departures, bd_picks, scr_carriers, scr_brand, scr_i, scr_saved,
                   scr_error, scr_passes, notScr>>

\* One iteration of _scrape_carrier's loop: _scrape_carrier_train.
ScrCarrierTrain ==
    /\ scr_pc = "scraping"
    /\ scr_i <= Len(scr_brand.trains)
    /\ LET carrier_train == scr_brand.trains[scr_i]
           n == Len(TrainIdOrder(carrier_train.date_train_map))
           after == ScrapedCarrierTrain(carrier_train, n)
       IN  /\ calendars' = after.calendars
           /\ trips' = after.trips
           /\ stops' = after.stops
           /\ stop_times' = after.stop_times
           /\ added_stations' = after.added_stations
           /\ scr_requests' = after.requests
           /\ scr_data' = after.data
           /\ bus_departures' = _bus_departures(after.data)
           /\ bd_picks' = BusPicks(after.data)
    /\ scr_i' = scr_i + 1
    /\ UNCHANGED <<routes, transfers, scr_pc, scr_carriers, scr_brand, scr_saved, scr_error,
                   scr_passes, notScr>>

\* An endpoint call inside the transaction raises (call gave up after its
\* retries): carrier_trains_lists, train_calendars, or endpoint.train after n
\* trains of the carrier train were scraped.  The exception leaves the
\* transaction block and execute; _added_stations keeps what it got.
ScrEndpointError ==
    /\ \/ /\ scr_pc = "checked"
          /\ scr_requests' = Append(scr_requests, "carrier_trains_lists")
          /\ UNCHANGED added_stations
       \/ /\ scr_pc = "scraping"
          /\ scr_i <= Len(scr_brand.trains)
          /\ LET carrier_train == scr_brand.trains[scr_i] IN
             \/ /\ scr_requests' = Append(scr_requests, "train_calendars")
                /\ UNCHANGED added_stations
             \/ \E n \in 0..(Len(TrainIdOrder(carrier_train.date_train_map)) - 1) :
                   LET after == ScrapedCarrierTrain(carrier_train, n) IN
                   /\ scr_requests' = Append(after.requests, "trains")
                   /\ added_stations' = after.added_stations
    /\ Restore(transaction_rollback(scr_saved, dbVars))
    /\ scr_pc' = "raised"
    /\ scr_error' = [kind |-> "HTTPError", errors |-> {}]
    /\ UNCHANGED <<scr_data, bus_departures, bd_picks, scr_carriers, scr_brand, scr_i,
                   scr_saved, scr_passes, notScr>>

\* The loop is over: the transaction commits and execute returns.
ScrCommit ==
    /\ scr_pc = "scraping"
    /\ scr_i > Len(scr_brand.trains)
    /\ scr_pc' = "done"
    /\ UNCHANGED <<dbVars, added_stations, scr_data, bus_departures, bd_picks, scr_carriers,
                   scr_brand, scr_i, scr_saved, scr_error, scr_passes, scr_requests, notScr>>

(***************************************************************************)
(* The responses one pass gets: the carriers, one brand with its trains,    *)
(* each train's calendar and the trains of that calendar.                  *)
(***************************************************************************)
MaxCarrierTrains == 2

CarrierLists == {{CARRIER, "koleje-dolnoslaskie"}, {"koleje-dolnoslaskie"}, {}}

StopPatterns == {<<"A", "B">>, <<"B", "A", "B">>}

\* The date_train_map of a calendar whose train ids are a and b.
CalendarMaps(a, b) ==
    {<<<<DateString(1), a>>, <<DateString(2), b>>>>,
     <<<<DateString(1), a>>, <<DateString(2), a>>>>}

CarrierTrainNames == {<<>>, <<"Z", "K", "A">>}

TrainResponse(train_id, train_name, names) ==
    [train |-> [id |-> train_id, name |-> train_name, train_attributes |-> <<>>],
     stops |-> [i \in 1..Len(names) |->
                  [station_id |-> StationId(names[i]), station_name |-> names[i],
                   arrival |-> 600 * i, departure |-> 600 * i + 60, platform |-> "1"]]]

\* The carrier trains the brand may list at position k: number k, train ids
\* 10k+1 and 10k+2.
CarrierTrains(k) ==
    {[nr |-> k, name |-> name, date_train_map |-> map,
      responses |-> [id \in {10 * k + 1, 10 * k + 2} |-> TrainResponse(id, name, names)]] :
        name \in CarrierTrainNames, map \in CalendarMaps(10 * k + 1, 10 * k + 2),
        names \in StopPatterns}

BrandTrains ==
    {<<>>} \cup {trains \in SeqsUpTo(UNION {CarrierTrains(k) : k \in 1..MaxCarrierTrains},
                                     MaxCarrierTrains) :
                    \A k \in 1..Len(trains) : trains[k] \in CarrierTrains(k)}

ScrapeInit ==
    /\ SblIdle
    /\ LdrIdle
    /\ LsdIdle
    /\ CalIdle
    /\ EpIdle
    /\ EmptyStore
    /\ ScrBefore
    /\ scr_data = NoData
    /\ scr_carriers \in CarrierLists
    /\ \E trains \in BrandTrains :
         scr_brand = [id |-> <<"R">>, name |-> <<"R", "E", "G">>, trains |-> trains]

ScrapeNext == ScrExecute \/ ScrBrand \/ ScrCarrierTrain \/ ScrEndpointError \/ ScrCommit

SpecScrape == ScrapeInit /\ [][ScrapeNext]_vars

(***************************************************************************)
(* The three tasks with a transaction of their own, each on the store it    *)
(* finds: the responses of a scrape pass, a store of stubs with a registry  *)
(* of at most one entry, or a store of trips with at most four stop-times.  *)
(***************************************************************************)
PhasesInit ==
    \/ ScrapeInit
    \/ StationsInit /\ Len(lsd_stations) <= 1
    \/ LegsInit /\ Cardinality(stop_times) <= 4

PhasesNext ==
    \/ ScrExecute \/ ScrBrand \/ ScrCarrierTrain \/ ScrEndpointError \/ ScrCommit
    \/ LsdExecute \/ LsdApply \/ LsdFinish
    \/ SblExecute \/ SblProcessTrain \/ SblFail \/ SblDone

SpecPhases == PhasesInit /\ [][PhasesNext]_vars

(***************************************************************************)
(* api.py: Endpoint                                                        *)
(***************************************************************************)
\* retries = 3
retries == 3

\* pause_s = 0.05, in milliseconds
pause == 50

\* last_call is stamped but the thread does not sleep.
WaitBetweenCalls_NoSleep(now, last, oversleep) == [clock |-> now, last_call |-> now]

\* _wait_between_calls: the clock and last_call after it, when a sleep takes
\* `oversleep` longer than asked.
WaitBetweenCalls(now, last, oversleep) ==
    LET delta == now - last IN
    IF delta < pause
    THEN [clock |-> now + (pause - delta) + oversleep,
          last_call |-> now + (pause - delta) + oversleep]
    ELSE [clock |-> now, last_call |-> now]

\* `if retry == retries: raise` taken one attempt early.
LastAttempt_OneEarly(retry) == retry = retries - 1

\* `if retry == retries: raise`
LastAttempt(retry) == retry = retries

Paths == {"carriers", "stations"}
Gaps == {0, 100}
Durations == {0, 60}
Oversleeps == {0, 5}
MaxCalls == 2

\* call(path, **params): builds the request and enters the retry loop.
EpCall ==
    /\ ep_pc \in {"idle", "returned", "raised"}
    /\ ep_calls < MaxCalls
    /\ ep_calls' = ep_calls + 1
    /\ \E path \in Paths : ep_request' = path
    /\ \E gap \in Gaps : ep_clock' = ep_clock + gap
    /\ ep_retry' = 1
    /\ ep_attempts' = <<>>
    /\ ep_result' = NoResult
    /\ ep_pc' = "attempting"
    /\ ep_sent' = IF ep_sent = <<>> THEN <<>> ELSE <<Last(ep_sent)>>
    /\ UNCHANGED <<last_call, notEp>>

\* The part of _do_call every attempt shares: wait, then send the request.
EpSend(outcome) ==
    \E oversleep \in Oversleeps, duration \in Durations :
        LET waited == WaitBetweenCalls(ep_clock, last_call, oversleep) IN
        /\ last_call' = waited.last_call
        /\ ep_sent' = Append(ep_sent, <<ep_request, waited.clock>>)
        /\ ep_clock' = waited.clock + duration
        /\ ep_attempts' = Append(ep_attempts, outcome)

\* An attempt whose response is good: call returns response.json().
EpAttemptOk ==
    /\ ep_pc = "attempting"
    /\ EpSend("ok")
    /\ ep_result' = [kind |-> "response", attempt |-> ep_retry]
    /\ ep_pc' = "returned"
    /\ UNCHANGED <<ep_calls, ep_request, ep_retry, notEp>>

\* An attempt on which raise_for_status raises requests.HTTPError: caught by
\* call, which raises it again on the last attempt and loops otherwise.
EpAttemptHTTPError ==
    /\ ep_pc = "attempting"
    /\ EpSend("HTTPError")
    /\ IF LastAttempt(ep_retry)
       THEN /\ ep_result' = [kind |-> "HTTPError", attempt |-> ep_retry]
            /\ ep_pc' = "raised"
            /\ UNCHANGED ep_retry
       ELSE IF ep_retry + 1 > retries
            THEN \* the for loop is exhausted: call returns None
                 /\ ep_result' = [kind |-> "None", attempt |-> ep_retry]
                 /\ ep_pc' = "returned"
                 /\ UNCHANGED ep_retry
            ELSE /\ ep_retry' = ep_retry + 1
                 /\ UNCHANGED <<ep_result, ep_pc>>
    /\ UNCHANGED <<ep_calls, ep_request, notEp>>

\* An attempt that raises anything else (the connection fails in send, the
\* body is not JSON): `except requests.HTTPError` does not catch it.
EpAttemptOtherError ==
    /\ ep_pc = "attempting"
    /\ EpSend("OtherError")
    /\ ep_result' = [kind |-> "OtherError", attempt |-> ep_retry]
    /\ ep_pc' = "raised"
    /\ UNCHANGED <<ep_calls, ep_request, ep_retry, notEp>>

EndpointInit ==
    /\ SblIdle
    /\ LdrIdle
    /\ ScrIdle
    /\ LsdIdle
    /\ CalIdle
    /\ EmptyStore
    /\ ep_pc = "idle"
    /\ ep_calls = 0
    /\ ep_request = ""
    /\ ep_retry = 1
    /\ ep_attempts = <<>>
    /\ ep_result = NoResult
    /\ ep_clock \in {20, 1000}
    /\ last_call = 0
    /\ ep_sent = <<>>

EndpointNext == EpCall \/ EpAttemptOk \/ EpAttemptHTTPError \/ EpAttemptOtherError

SpecEndpoint == EndpointInit /\ [][EndpointNext]_vars

(***************************************************************************)
(* Properties of the leg splitter.                                         *)
(***************************************************************************)
\* The stops a stop-time list calls at, in order.
StopsOf(sts) == [i \in 1..Len(sts) |-> <<sts[i].stop_sequence, sts[i].stop_id>>]

\* Leg k ends with the arrival-only copy and leg k+1 starts with the
\* departure-only copy of one and the same stop of the input.
BoundaryPairsOk(sts, legs) ==
    \A k \in 1..(Len(legs) - 1) :
        LET a == Last(legs[k].stop_times)
            d == legs[k + 1].stop_times[1]
        IN  /\ <<a.stop_sequence, a.stop_id>> = <<d.stop_sequence, d.stop_id>>
            /\ a.departure_time = a.arrival_time
            /\ d.arrival_time = d.departure_time
            /\ \E i \in 1..Len(sts) :
                 /\ sts[i].stop_sequence = a.stop_sequence
                 /\ a.arrival_time = sts[i].arrival_time
                 /\ d.departure_time = sts[i].departure_time

\* The legs' stop-times concatenated, each boundary pair collapsed into one stop.
RECURSIVE CollapseLegs(_)
CollapseLegs(legs) ==
    IF legs = <<>> THEN <<>>
    ELSE IF Len(legs) = 1 THEN legs[1].stop_times
    ELSE legs[1].stop_times \o Tail(CollapseLegs(Tail(legs)))

LegCoverage(sts, legs) ==
    /\ BoundaryPairsOk(sts, legs)
    /\ StopsOf(CollapseLegs(legs)) = StopsOf(sts)

\* C1 (as claimed): for any stop-time list given to compute_legs, the legs
\* concatenated with the boundary pairs collapsed give back the original
\* stop sequence.
C1_LegCoverageAnyList == sbl_input # <<>> => LegCoverage(sbl_input, sbl_legs)

\* C1 (amended): for any list of at least two stop-times given to
\* compute_legs, the legs concatenated with the boundary pairs collapsed give
\* back exactly the original ordered stop sequence.
C1_LegCoverage == Len(sbl_input) >= 2 => LegCoverage(sbl_input, sbl_legs)

\* A trip of at least four stops was split into at least three legs.
C1_Witness == Len(sbl_input) >= 4 /\ Len(sbl_legs) >= 3

\* The last process_train replaced the trip by its legs.
SplitIntoLegs ==
    /\ sbl_input # <<>>
    /\ ~Contains(sbl_train.short_name, ZKA)
    /\ Len(sbl_legs) >= 2

TransfersOf(train) ==
    SelectSeq(transfers, LAMBDA x : x.from_trip_id[1] = train.trip_id[1])

\* C2: a trip split into n >= 2 legs gets exactly n-1 transfers; transfer k
\* goes from trip <id>_k to trip <id>_(k+1), from the last stop of leg k to
\* the first stop of leg k+1, and is a timed transfer.
C2_TransferLinkage ==
    SplitIntoLegs =>
        /\ Len(TransfersOf(sbl_train)) = Len(sbl_legs) - 1
        /\ \A k \in 1..(Len(sbl_legs) - 1) :
             LET x == TransfersOf(sbl_train)[k] IN
             /\ x.from_trip_id = LegTripId(sbl_train.trip_id, k - 1)
             /\ x.to_trip_id = LegTripId(sbl_train.trip_id, k)
             /\ x.from_stop_id = Last(sbl_legs[k].stop_times).stop_id
             /\ x.to_stop_id = sbl_legs[k + 1].stop_times[1].stop_id
             /\ x.type = "TIMED"

\* Scenario B: the last trip handled had stop-times tagged rail, rail, road,
\* road, rail.
ScenarioB ==
    /\ Len(sbl_input) = 5
    /\ [i \in 1..5 |-> IsBus(sbl_input[i])] = <<FALSE, FALSE, TRUE, TRUE, FALSE>>

LegShape(legs) == [k \in 1..Len(legs) |-> <<legs[k].is_bus, Len(legs[k].stop_times)>>]

LegTripsExist(train, n) ==
    /\ \A k \in 0..(n - 1) : \E t \in trips : t.trip_id = LegTripId(train.trip_id, k)
    /\ \A t \in trips : t.trip_id[1] = train.trip_id[1] =>
         \E k \in 0..(n - 1) : t.trip_id = LegTripId(train.trip_id, k)

\* C9 (as claimed): scenario B gives 3 legs, rail (3 stop-times), road (3),
\* rail (2), with 2 transfers and the 3 new trips <id>_0, <id>_1, <id>_2.
C9_ScenarioBThreeLegs ==
    (ScenarioB /\ ~Contains(sbl_train.short_name, ZKA)) =>
        /\ LegShape(sbl_legs) = <<<<FALSE, 3>>, <<TRUE, 3>>, <<FALSE, 2>>>>
        /\ Len(TransfersOf(sbl_train)) = 2
        /\ LegTripsExist(sbl_train, 3)

\* C9 (amended): scenario B gives 2 legs, rail (3 stop-times, the last one the
\* arrival-only copy of the third stop) and road (3 stop-times, from the
\* departure-only copy of the third stop to the arrival-only copy of the
\* fifth); the one-stop rail run left at the end is dropped.  When the trip
\* name has no ZKA marker, processing creates 1 transfer and the 2 new trips
\* <id>_0 and <id>_1 in place of the original.
C9_ScenarioBTwoLegs ==
    ScenarioB =>
        /\ LegShape(sbl_legs) = <<<<FALSE, 3>>, <<TRUE, 3>>>>
        /\ StopsOf(sbl_legs[1].stop_times) = SubSeq(StopsOf(sbl_input), 1, 3)
        /\ StopsOf(sbl_legs[2].stop_times) = SubSeq(StopsOf(sbl_input), 3, 5)
        /\ ~Contains(sbl_train.short_name, ZKA) =>
             /\ Len(TransfersOf(sbl_train)) = 1
             /\ LegTripsExist(sbl_train, 2)

C9_Witness == ScenarioB /\ ~Contains(sbl_train.short_name, ZKA) /\ sbl_pc = "done"

\* The trip process_train is about to handle, and its segmentation.
NextTrain == retrieve_must(Head(to_process))

NextLegs == compute_legs(SelectStopTimes(Head(to_process)))

CompanionRoute(route_id) == route_id \o <<"BUS">>

RouteIdsIn(rows) == {rows[k].route_id : k \in 1..Len(rows)}

C14_LegMaterialization ==
    SplitIntoLegs =>
        /\ \A t \in trips : t.trip_id # sbl_train.trip_id
        /\ LegTripsExist(sbl_train, Len(sbl_legs))
        /\ \A k \in 1..Len(sbl_legs) :
             LET id == sbl_train.trip_id \o <<"_", ToString(k - 1)>>
                 leg == sbl_legs[k].stop_times
             IN  /\ \A t \in trips : t.trip_id = id =>
                        t.route_id = IF sbl_legs[k].is_bus
                                     THEN CompanionRoute(sbl_train.route_id)
                                     ELSE sbl_train.route_id
                 /\ {st \in stop_times : st.trip_id = id}
                        = {[leg[i] EXCEPT !.trip_id = id] : i \in 1..Len(leg)}
                 /\ Cardinality({st \in stop_times : st.trip_id = id}) = Len(leg)

\* A trip was replaced by three legs: rail, road, rail.
C14_Witness ==
    /\ SplitIntoLegs
    /\ Len(sbl_legs) = 3
    /\ ~sbl_legs[1].is_bus
    /\ \E t \in trips : t.trip_id = sbl_train.trip_id \o <<"_", "2">>

\* C19: for any non-empty stop-time list, every leg compute_legs returns has
\* at least two stop-times, the platform of a stop-time of a leg is "BUS"
\* exactly when the leg is road-mode, and consecutive legs differ in mode.
C19_LegShape ==
    sbl_input # <<>> =>
        /\ \A k \in 1..Len(sbl_legs) :
             /\ Len(sbl_legs[k].stop_times) >= 2
             /\ \A i \in 1..Len(sbl_legs[k].stop_times) :
                  (sbl_legs[k].stop_times[i].platform = "BUS") <=> sbl_legs[k].is_bus
        /\ \A k \in 1..(Len(sbl_legs) - 1) : sbl_legs[k].is_bus # sbl_legs[k + 1].is_bus

\* A trip that starts on the road and changes mode twice, with a single
\* stop of the third mode run left at its end.
C19_Witness ==
    /\ Len(sbl_input) = 5
    /\ [i \in 1..5 |-> IsBus(sbl_input[i])] = <<TRUE, TRUE, FALSE, FALSE, TRUE>>
    /\ Len(sbl_legs) = 2
    /\ sbl_legs[1].is_bus

\* No time of the list is earlier than the one before it.
Chronological(sts) ==
    /\ \A i \in 1..Len(sts) : sts[i].arrival_time <= sts[i].departure_time
    /\ \A i \in 1..(Len(sts) - 1) : sts[i].departure_time <= sts[i + 1].arrival_time

\* The stop-time of the trip a stop-time of a leg was made from.
OriginalOf(st) ==
    CHOOSE original \in {sbl_input[i] : i \in 1..Len(sbl_input)} :
        original.stop_sequence = st.stop_sequence

\* Leg k was closed by a mode change: its last stop-time is the arrival-only
\* copy of the boundary stop.
ClosedByModeChange(k) ==
    \/ k < Len(sbl_legs)
    \/ IsBus(OriginalOf(Last(sbl_legs[k].stop_times))) # sbl_legs[k].is_bus

\* C24: when the stop-times of a trip satisfy arrival[i] <= departure[i] <=
\* arrival[i+1], so do the stop-times of every leg compute_legs returns; the
\* arrival-only copy that closes a leg has the arrival time of the boundary
\* stop as both its times, the departure-only copy that opens a leg has the
\* departure time of the boundary stop as both its times, and the last time of
\* a leg is not later than the first time of the next leg.
C24_ChronologyPreserved ==
    (sbl_input # <<>> /\ Chronological(sbl_input)) =>
        /\ \A k \in 1..Len(sbl_legs) : Chronological(sbl_legs[k].stop_times)
        /\ \A k \in 1..Len(sbl_legs) :
             ClosedByModeChange(k) =>
                LET copy == Last(sbl_legs[k].stop_times) IN
                /\ copy.arrival_time = OriginalOf(copy).arrival_time
                /\ copy.departure_time = copy.arrival_time
        /\ \A k \in 2..Len(sbl_legs) :
             LET copy == Head(sbl_legs[k].stop_times) IN
             /\ copy.departure_time = OriginalOf(copy).departure_time
             /\ copy.arrival_time = copy.departure_time
        /\ \A k \in 1..(Len(sbl_legs) - 1) :
             Last(sbl_legs[k].stop_times).departure_time
                <= Head(sbl_legs[k + 1].stop_times).arrival_time

\* A trip of four stops that changes mode at its second and third stop, where
\* it dwells, was split into three legs.
C24_Witness ==
    /\ sbl_pc = "done"
    /\ Len(sbl_input) = 4
    /\ Chronological(sbl_input)
    /\ Len(sbl_legs) = 3
    /\ sbl_input[2].arrival_time < sbl_input[2].departure_time
    /\ sbl_input[3].arrival_time < sbl_input[3].departure_time
    /\ sbl_input[2].departure_time = sbl_input[3].arrival_time

(***************************************************************************)
(* Properties of the scraper.                                              *)
(***************************************************************************)
\* The stop-times of the scraped train, in stop_sequence order.
Written == SelectStopTimes(<<scr_data.train.id>>)

\* C3: the stop-times written by _scrape_train_stops have arrival[i] <=
\* departure[i] at every stop and departure[i] <= arrival[i+1] between
\* consecutive stops.
C3_Monotonicity ==
    scr_pc = "done" =>
        /\ Len(Written) = Len(scr_data.stops)
        /\ \A i \in 1..Len(Written) : Written[i].arrival_time <= Written[i].departure_time
        /\ \A i \in 1..(Len(Written) - 1) :
             Written[i].departure_time <= Written[i + 1].arrival_time

\* A train whose raw times go backwards twice: within the first stop and from
\* the first stop to the second, which ends two days after the start.
C3_Witness ==
    /\ scr_pc = "done"
    /\ Len(scr_data.stops) = 2
    /\ scr_data.stops[1].departure < scr_data.stops[1].arrival
    /\ scr_data.stops[2].arrival < scr_data.stops[1].departure
    /\ Written[2].arrival_time >= 2 * Day

\* x is raw plus the smallest number of whole days that makes it >= floor.
MinimalRollover(x, raw, floor) ==
    /\ x >= raw
    /\ (x - raw) % 86400 = 0
    /\ x >= floor
    /\ x > raw => x - 86400 < floor

RolloverIsMinimal ==
    scr_pc = "done" =>
        /\ Len(Written) = Len(scr_data.stops)
        /\ \A i \in 1..Len(Written) :
             /\ MinimalRollover(Written[i].arrival_time, scr_data.stops[i].arrival,
                                IF i = 1 THEN 0 ELSE Written[i - 1].departure_time)
             /\ MinimalRollover(Written[i].departure_time, scr_data.stops[i].departure,
                                Written[i].arrival_time)

RawTimesOf(data) == [i \in 1..Len(data.stops) |-> <<data.stops[i].arrival, data.stops[i].departure>>]

\* C18: every stop is written with its raw arrival plus the smallest number
\* (>= 0) of whole days that makes it >= the departure written for the stop
\* before (0 for the first stop), and with its raw departure plus the smallest
\* number of whole days that makes it >= that arrival; the raw times
\* [(85800,86100),(300,600)] are written as [(85800,86100),(86700,87000)];
\* and _scrape_train_stops, once called, ends (both loops terminate).
C18_MinimalRollover ==
    /\ []RolloverIsMinimal
    /\ []((scr_pc = "done" /\ RawTimesOf(scr_data) = <<<<85800, 86100>>, <<300, 600>>>>) =>
            [i \in 1..2 |-> <<Written[i].arrival_time, Written[i].departure_time>>]
                = <<<<85800, 86100>>, <<86700, 87000>>>>)
    /\ (scr_pc = "idle" ~> scr_pc = "done")

\* The train of the example was written; its second stop is on the next day.
C18_Witness ==
    /\ scr_pc = "done"
    /\ RawTimesOf(scr_data) = <<<<85800, 86100>>, <<300, 600>>>>
    /\ Written[2].arrival_time = 86700

\* The positions of the stops called `name`.
PositionsOf(name) ==
    {i - 1 : i \in {j \in 1..Len(scr_data.stops) : scr_data.stops[j].station_name = name}}

SetMin(S) == CHOOSE x \in S : \A y \in S : x <= y
SetMax(S) == CHOOSE x \in S : \A y \in S : x >= y

FirstOccurrence(name) == IF PositionsOf(name) = {} THEN {} ELSE {SetMin(PositionsOf(name))}
LastOccurrence(name) == IF PositionsOf(name) = {} THEN {} ELSE {SetMax(PositionsOf(name))}

\* The attributes _bus_departures looks at: recognized ids, on a train without
\* the whole-trip marker.
RecognizedAttributes ==
    IF scr_pc # "done" \/ Contains(scr_data.train.name, ZKA) THEN {}
    ELSE {a \in 1..Len(scr_data.train.train_attributes) :
            scr_data.train.train_attributes[a].id \in BUS_ATTRIBUTE_IDS}

\* C4: for each recognized attribute the begin position is the first stop
\* called by the attribute's begin-station name and the end position is the
\* last stop called by the attribute's end-station name.
C4_BoundaryResolution ==
    \A a \in RecognizedAttributes :
        LET attribute == scr_data.train.train_attributes[a] IN
        /\ bd_picks[a][1] = FirstOccurrence(attribute.begin_station_name)
        /\ bd_picks[a][2] = LastOccurrence(attribute.end_station_name)

\* C5: for every recognized attribute whose begin and end resolve to
\* positions b <= e, every position of b..e is in the returned set and its
\* stop-time is stored with platform "BUS".
C5_MarkedRange ==
    \A a \in RecognizedAttributes :
        LET attribute == scr_data.train.train_attributes[a] IN
        \A b \in FirstOccurrence(attribute.begin_station_name),
           e \in LastOccurrence(attribute.end_station_name) :
            b <= e =>
                \A pos \in b..e :
                    /\ pos \in bus_departures
                    /\ Written[pos + 1].platform = "BUS"

\* The name with every letter in lower case.
Lowered(chars) == [i \in 1..Len(chars) |-> LowerOf(chars[i])]

\* C15: when the train's name contains the marker ZKA in any letter case,
\* _bus_departures returns every stop position of the trip, whatever the
\* attributes are, and every stop-time is stored with platform "BUS".
C15_WholeTripMarker ==
    (scr_pc = "done" /\ Contains(Lowered(scr_data.train.name), Lowered(ZKA))) =>
        /\ bus_departures = 0..(Len(scr_data.stops) - 1)
        /\ \A i \in 1..Len(Written) : Written[i].platform = "BUS"

\* C22: for any trip with n stops and any attribute list, every element of
\* the set _bus_departures returns is a stop position of the trip, 0..n-1.
C22_ValidPositions ==
    scr_pc = "done" => bus_departures \subseteq 0..(Len(scr_data.stops) - 1)

(***************************************************************************)
(* Properties of the station reconciler.                                   *)
(***************************************************************************)
StopRows == {stops[k] : k \in 1..Len(stops)}

UncuratedIds == {row.stop_id : row \in {r \in StopRows : r.lat = 0 /\ r.lon = 0}}

\* C6: when LoadStationData.execute ends, either no stop-time references a
\* station whose coordinates are (0,0), or it has raised one aggregated error
\* with one sub-error for every station left uncurated.
C6_ReconciliationCompleteness ==
    lsd_pc \in {"done", "raised"} =>
        \/ \A st \in stop_times : st.stop_id \notin UncuratedIds
        \/ /\ lsd_error.kind = "MultipleDataErrors"
           /\ {e[1] : e \in lsd_error.errors} = UncuratedIds
           /\ Cardinality(lsd_error.errors) = Cardinality(UncuratedIds)

\* C7: when _apply handles an entry whose alias id is a known stub: if the
\* primary id is a known stub too, the stop-times of the alias are re-pointed
\* to the primary id and the alias stub is deleted; otherwise the alias stub is
\* renamed to the primary id; in both cases the station with the primary id
\* then carries the entry's name and coordinates and no station has the alias
\* id any more.
C7_AliasUnification ==
    [][(lsd_pc = "applying" /\ lsd_i <= Len(lsd_stations)) =>
        LET station == lsd_stations[lsd_i]
            id == station.id
            alias == station.secondary_id
        IN  (alias \in DOMAIN to_update /\ alias # id) =>
                /\ id \in DOMAIN to_update =>
                     /\ \A st \in stop_times : st.stop_id = alias =>
                            [st EXCEPT !.stop_id = id] \in stop_times'
                     /\ \A st \in stop_times' : st.stop_id # alias
                /\ id \notin DOMAIN to_update =>
                     \A k \in 1..Len(stops) : stops[k].stop_id = alias =>
                        stops'[k].stop_id = id
                /\ HasStop(stops', id)
                /\ \A k \in 1..Len(stops') : stops'[k].stop_id = id =>
                     /\ stops'[k].name = station.name
                     /\ stops'[k].lat = station.lat
                     /\ stops'[k].lon = station.lon
                /\ ~HasStop(stops', alias)
      ]_vars

\* The same two statements, for the passes in which the store rejects no rename.
C6_WhenNoRenameRejected ==
    (lsd_pc \in {"done", "raised"} /\ lsd_error.kind # "IntegrityError") =>
        \/ \A st \in stop_times : st.stop_id \notin UncuratedIds
        \/ /\ lsd_error.kind = "MultipleDataErrors"
           /\ {e[1] : e \in lsd_error.errors} = UncuratedIds
           /\ Cardinality(lsd_error.errors) = Cardinality(UncuratedIds)

\* No two stations of the list have the same id.
DistinctStopIds(rows) ==
    \A k, l \in 1..Len(rows) : k # l => rows[k].stop_id # rows[l].stop_id

\* Entry k of the registry was applied before, in this pass.
AppliedBefore(k) == \E j \in 1..(k - 1) : lsd_stations[j] = lsd_stations[k]

RenamesOntoExistingId ==
    LET station == lsd_stations[lsd_i] IN
    /\ station.secondary_id \in DOMAIN to_update
    /\ AliasBranch(station, Pop(to_update, station.secondary_id)) = "rename"
    /\ station.secondary_id # station.id
    /\ HasStop(stops, station.secondary_id)
    /\ HasStop(stops, station.id)

\* C21: under any set of stubs and any order of registry entries, _apply never
\* renames an alias stub to an id that already exists in the store, and after
\* every _apply step no two stations share an id.
C21_UniqueStationIds ==
    [][(lsd_pc = "applying" /\ lsd_i <= Len(lsd_stations)) =>
            /\ ~RenamesOntoExistingId
            /\ DistinctStopIds(stops')
      ]_vars

(***************************************************************************)
(* Properties of the registry parser.                                      *)
(***************************************************************************)
\* The record a point node describes by itself: its coordinates and the last
\* ref, ref:2 and name among its own tags.
RECURSIVE OwnTags(_, _)
OwnTags(record, tags) ==
    IF tags = <<>> THEN record
    ELSE OwnTags(
            CASE Head(tags).k = "ref" -> [record EXCEPT !.id = Head(tags).v]
              [] Head(tags).k = "ref:2" -> [record EXCEPT !.secondary_id = Head(tags).v]
              [] Head(tags).k = "name" -> [record EXCEPT !.name = Head(tags).v]
              [] OTHER -> record,
            Tail(tags))

OwnRecord(element) ==
    OwnTags([id |-> "", name |-> "", lat |-> Float(element.attrs.lat),
             lon |-> Float(element.attrs.lon), secondary_id |-> ""],
            element.tags)

\* The point nodes with a non-empty ref, a non-empty name and non-zero
\* coordinates, in document order.
UsableNodes(file) ==
    SelectSeq(file, LAMBDA element :
        /\ element.name = "node"
        /\ OwnRecord(element).id # "" /\ OwnRecord(element).name # ""
        /\ OwnRecord(element).lat # 0 /\ OwnRecord(element).lon # 0)

\* C23: the records PLRailMapLoader returns are exactly those of the point
\* nodes with non-empty ref, non-empty name and non-zero coordinates, each
\* with the coordinates and the ref, ref:2 and name tags of its own node only,
\* and no event changes a record that was already emitted.
C23_ParserIsolation ==
    /\ [](ldr_pc = "done" =>
            stations = [k \in 1..Len(UsableNodes(ldr_file)) |->
                            OwnRecord(UsableNodes(ldr_file)[k])])
    /\ [][\A k \in 1..Len(stations) : stations'[k] = stations[k]]_vars

\* The same, for the moment each node ends: the record appended then is the
\* node's own.
C23_RecordsAtEmission ==
    [][(ldr_pc = "parsing" /\ Len(stations') > Len(stations)) =>
            \E element \in {ldr_file[k] : k \in 1..Len(ldr_file)} :
                /\ element.name = "node"
                /\ Last(stations') = OwnRecord(element)
                /\ StationIsValid(OwnRecord(element))
      ]_vars

(***************************************************************************)
(* Properties of the calendar expander.                                    *)
(***************************************************************************)
\* The day a date string of the input was written from.
DayOf(date_str) == CHOOSE day \in 1..31 : DateString(day) = date_str

March(day) == [year |-> 2024, month |-> 3, day |-> day]

Occurrences(list, x) == Cardinality({j \in 1..Len(list) : list[j] = x})

\* C8: every input date is in exactly one output group, the group of the
\* train id it maps to, exactly once; no date is added or lost; every group is
\* non-empty.
C8_CalendarPartition ==
    cal_pc = "done" =>
        /\ \A i \in 1..Len(date_train_map) :
             \A id \in DOMAIN train_date_map :
                Occurrences(train_date_map[id], March(DayOf(date_train_map[i][1])))
                    = IF id = date_train_map[i][2] THEN 1 ELSE 0
        /\ \A i \in 1..Len(date_train_map) : date_train_map[i][2] \in DOMAIN train_date_map
        /\ \A id \in DOMAIN train_date_map :
             /\ train_date_map[id] # <<>>
             /\ \A j \in 1..Len(train_date_map[id]) :
                  \E i \in 1..Len(date_train_map) :
                     /\ date_train_map[i][2] = id
                     /\ train_date_map[id][j] = March(DayOf(date_train_map[i][1]))

\* Three dates went to two groups.
C8_Witness ==
    /\ cal_pc = "done"
    /\ Len(date_train_map) = 3
    /\ Cardinality(DOMAIN train_date_map) = 2

(***************************************************************************)
(* Properties of the endpoint client.                                      *)
(***************************************************************************)
\* The requests sent for the current call.
SentForCall == SubSeq(ep_sent, Len(ep_sent) - Len(ep_attempts) + 1, Len(ep_sent))

C10_WitnessRaised ==
    /\ ep_pc = "raised"
    /\ ep_attempts = <<"HTTPError", "HTTPError", "HTTPError">>

\* C17: the monotonic-clock times at which two consecutive requests are sent
\* (attempts of one call or of two calls, failed or not) differ by at least
\* the pause of 50 ms.
C17_Pacing ==
    \A k \in 1..(Len(ep_sent) - 1) : ep_sent[k + 1][2] - ep_sent[k][2] >= 50

\* A failed attempt that took no time was followed by the next attempt
\* exactly one pause later, and an earlier call had been made.
C17_Witness ==
    /\ ep_calls = 2
    /\ Len(ep_attempts) >= 2
    /\ ep_attempts[1] = "HTTPError"
    /\ ep_sent[Len(ep_sent)][2] - ep_sent[Len(ep_sent) - 1][2] = pause

(***************************************************************************)
(* Properties of the tasks' transactions.                                  *)
(***************************************************************************)
\* The writes of a finished scrape pass: the brand's route, and every train
\* of every calendar with its trip, its calendar and its stop-times.
ScrWritesVisible ==
    /\ routes = <<[route_id |-> scr_brand.id, type |-> 2]>>
    /\ \A k \in 1..Len(scr_brand.trains) :
         LET carrier_train == scr_brand.trains[k] IN
         \A i \in 1..Len(carrier_train.date_train_map) :
            LET train_id == carrier_train.date_train_map[i][2] IN
            /\ \E t \in trips : t.trip_id = <<train_id>>
            /\ \E c \in calendars : c.calendar_id = train_id
            /\ Len(SelectStopTimes(<<train_id>>)) = Len(carrier_train.responses[train_id].stops)
            /\ \A st \in stop_times : st.trip_id = <<train_id>> => HasStop(stops, st.stop_id)

\* The writes of a finished reconciliation pass: every stub the pass took out
\* of to_update is gone or has its coordinates.
LsdWritesVisible ==
    /\ {stops[k].stop_id : k \in {j \in 1..Len(stops) : stops[j].lat = 0 /\ stops[j].lon = 0}}
            \subseteq DOMAIN to_update
    /\ (\E k \in 1..Len(lsd_saved[4]) : lsd_saved[4][k].stop_id \notin DOMAIN to_update)
            => dbVars # lsd_saved

\* The writes of a finished segmentation pass, for every trip it found.
SblWritesVisible ==
    \A t \in sbl_saved[2] :
        LET sts == {st \in sbl_saved[3] : st.trip_id = t.trip_id}
            legs == compute_legs([i \in 1..Cardinality(sts) |->
                                    CHOOSE st \in sts : st.stop_sequence = i - 1])
        IN  IF Contains(t.short_name, ZKA) \/ (Len(legs) = 1 /\ legs[1].is_bus)
            THEN /\ [t EXCEPT !.route_id = BusRouteId(t.route_id)] \in trips
                 /\ t \notin trips
            ELSE IF Len(legs) > 1
            THEN /\ t \notin trips
                 /\ LegTrips(t, legs) \subseteq trips
                 /\ LegStopTimes(t, legs) \subseteq stop_times
            ELSE t \in trips

AllWritesVisibleWhenDone ==
    /\ scr_pc = "done" => ScrWritesVisible
    /\ lsd_pc = "done" => LsdWritesVisible
    /\ sbl_pc = "done" => SblWritesVisible

\* C16: ScrapeAPI.execute raises the DataError of _check_carriers exactly when
\* the slug polregio-przewozy-regionalne is not among the carriers of the
\* response; the error lists the slugs of the response, the carriers request
\* is the only request of the pass, and nothing was written to the store.
C16_MissingCarrier ==
    /\ (scr_pc # "idle" /\ "polregio-przewozy-regionalne" \notin scr_carriers) =>
            /\ scr_pc = "raised"
            /\ scr_error = [kind |-> "DataError", errors |-> scr_carriers]
            /\ scr_requests = <<"carriers">>
            /\ dbVars = scr_saved
            /\ EmptyStore
    /\ (scr_pc = "raised" /\ scr_error.kind = "DataError") =>
            "polregio-przewozy-regionalne" \notin scr_carriers

\* The pass was refused although the brand has trains; the error lists the
\* one carrier of the response.
C16_Witness ==
    /\ scr_pc = "raised"
    /\ scr_error = [kind |-> "DataError", errors |-> {"koleje-dolnoslaskie"}]
    /\ scr_brand.trains # <<>>

RowsWithStopId(id) == {k \in 1..Len(stops) : stops[k].stop_id = id}

RowsWithRouteId(id) == {k \in 1..Len(routes) : routes[k].route_id = id}

\* C20: in a scrape pass every station a stop-time calls at has exactly one
\* row in the store, whatever trains and stops came, and no station has two;
\* in a segmentation pass the route of every trip, the companion road routes
\* included, has exactly one row; and both accumulator sets are empty when a
\* pass starts, whatever an earlier pass left in them.
C20_NoDuplicateInserts ==
    /\ scr_pc \in {"checked", "scraping", "done"} =>
         /\ \A st \in stop_times : Cardinality(RowsWithStopId(st.stop_id)) = 1
         /\ \A k \in 1..Len(stops) : Cardinality(RowsWithStopId(stops[k].stop_id)) = 1
         /\ {stops[k].stop_id : k \in 1..Len(stops)} = added_stations
    /\ sbl_pc \in {"processing", "done"} =>
         /\ \A t \in trips : Cardinality(RowsWithRouteId(t.route_id)) = 1
         /\ \A k \in 1..Len(routes) : Cardinality(RowsWithRouteId(routes[k].route_id)) = 1
         /\ added_routes \subseteq {routes[k].route_id : k \in 1..Len(routes)}
    /\ scr_pc = "checked" => added_stations = {}
    /\ (sbl_pc = "processing" /\ Len(to_process) = Cardinality(sbl_saved[2])) =>
         added_routes = {}

\* A second scrape pass, begun after the first one failed with stations in
\* its accumulator, has scraped two trains that call at the same stations.
C20_Witness ==
    /\ scr_passes = 2
    /\ scr_pc = "done"
    /\ Cardinality(trips) >= 2
    /\ Len(stops) = 2

=============================================================================
